---- MODULE Spec2Model ----
(***************************************************************************)
(* Model of the batch analysis orchestrator of the video scene detector:   *)
(* the BatchGeminiAnalysis component (handleBatchAnalyze and its           *)
(* auto-start effect), the App handlers that feed it (handleFileUpload,    *)
(* resetState, handleBatchAnalysisComplete, generateAndDownloadCSV) and    *)
(* the three HTTP stage calls it awaits.                                   *)
(*                                                                         *)
(* handleBatchAnalyze is an async function: every action below is the code *)
(* that runs between two awaits.  The exit of the for-loop is kept as a    *)
(* position of its own (pc = "finish") so that the state after the last    *)
(* item and the state after the termination block can both be observed;    *)
(* no other handler reads or writes what the termination block touches     *)
(* before it runs, so this adds no behaviour.                              *)
(***************************************************************************)
EXTENDS Integers, Sequences, FiniteSets, TLC

\* ------------------------------------------------------------------ bounds
MaxVideos == 2      \* longest batch explored with every response shape
MaxBatch == 6       \* longest batch explored with the coarse responses
MaxInst == 2        \* component instances ever mounted
MaxAppVideos == 1   \* longest upload in the application-level specification
MaxScenes == 2      \* most scenes of an artifact / prompts of a response
MaxRuns == 2        \* handleBatchAnalyze calls of one instance (Retry)
MaxMerge == 2       \* longest batch explored with repeated display names
MaxLong == 50       \* longest batch, explored with answers that all succeed
MaxView == 2        \* longest batch shown in the carousel specification
MaxIds == 4         \* result ids ever handed out in the carousel specification

\* --------------------------------------------------------- program values
SaveEvery == 5                         \* videoNumber % 5 === 0
Undef == "undefined"                   \* a missing property (falsy)
NoLen == -1                            \* a missing array property
ErrText == "no content"                \* error text supplied by the service
DefaultReason == "API returned no content"
UnknownError == "Unknown error"
NetError == "Failed to fetch"          \* message of a rejected await
SaveError == "export failed"           \* message thrown by the export
MergeError == "merge failed"           \* message thrown by onAnalysisComplete
VibeText == "vibe"
PromptText == "video prompt"

Inst == 1..MaxInst
Stages == {"vibe", "image", "video"}

\* ----------------------------------------------------------------- state
VARIABLES
  results,   \* App: useState<VideoResult[]>
  history,   \* App: useState<HistoryItem[]>, mirrored into localStorage
  mounted,   \* the mounted BatchGeminiAnalysis instance, 0 when none
  st,        \* per instance: the useState cells of BatchGeminiAnalysis
  run,       \* per instance: the locals of its handleBatchAnalyze call
  calls,     \* per instance: the stage requests of the current run, in order
  exports,   \* per instance: the onAutoSaveCSV calls of the current run
  handed,    \* per instance: the onAnalysisComplete calls of the current run
  envKey,    \* import.meta.env.VITE_GEMINI_API_KEY
  upload,    \* App: position of handleFileUpload ("idle", "loading", "error")
  nextId,    \* ids handed out so far (ids are never reused)
  currentIndex,  \* ResultsCarousel: useState(0), the result shown
  jsonData,  \* the OutputJson an export serializes
  jsonString,  \* its jsonStringWithDecimals, <<>> before the export
  parsed     \* what a reader of the export decodes, <<>> before it reads

vars == <<results, history, mounted, st, run, calls, exports, handed, envKey, upload, nextId,
          currentIndex, jsonData, jsonString, parsed>>

\* ------------------------------------------------------------- artifacts
\* VideoResult {id, videoName, jsonData{scenes, vibe_description,
\* image_prompts, video_prompt}, file}; scenes and image_prompts are kept
\* by their length (NoLen: property absent), file by its size.
Artifact(id, name, scenes, size) ==
  [id |-> id, videoName |-> name, scenes |-> scenes, fileSize |-> size,
   vibe_description |-> Undef, image_prompts |-> NoLen, video_prompt |-> Undef]

\* HistoryItem {id, timestamp, videoName, jsonData}; its id is made
\* independently of the id of the VideoResult of the same upload
HistoryItem(id, name, scenes) ==
  [id |-> 0 - id, videoName |-> name, scenes |-> scenes,
   vibe_description |-> Undef, image_prompts |-> NoLen, video_prompt |-> Undef]

Names == <<"a", "b", "c", "d", "e", "f", "g", "h">>
NameOf(k) == Names[((k - 1) % Len(Names)) + 1]

\* the bug of leaving out the test of the file size
EligibleAnyFile(r) == r.scenes # NoLen /\ r.scenes > 0

\* r.jsonData.scenes && r.jsonData.scenes.length > 0 && r.file.size > 0
Eligible(r) == r.scenes # NoLen /\ r.scenes > 0 /\ r.fileSize > 0

videosWithScenes(rs) == SelectSeq(rs, Eligible)

\* ---------------------------------------------------- double arithmetic
\* A positive double is a significand m of 53 bits, most significant first,
\* and an exponent e: its value is m * 2^e.  Division and multiplication
\* round to nearest, ties to even.
\* bits + 1
RECURSIVE Increment(_)
Increment(bits) ==
  IF bits = <<>> THEN <<1>>
  ELSE IF bits[Len(bits)] = 0 THEN [bits EXCEPT ![Len(bits)] = 1]
  ELSE Append(Increment(SubSeq(bits, 1, Len(bits) - 1)), 0)

\* bits rounded to 53 bits; sticky: something nonzero lies below bits.
\* e is the number of bits dropped
RoundToEven(bits, sticky) ==
  LET keep == SubSeq(bits, 1, 53)
      rest == SubSeq(bits, 54, Len(bits))
      guard == rest # <<>> /\ rest[1] = 1
      below == sticky \/ \E j \in 2..Len(rest) : rest[j] = 1
      up == guard /\ (below \/ keep[53] = 1)
      m == IF up THEN Increment(keep) ELSE keep
  IN IF Len(m) = 54 THEN [m |-> SubSeq(m, 1, 53), e |-> Len(rest) + 1]
     ELSE [m |-> m, e |-> Len(rest)]

\* the least s with k * 2^s >= n
RECURSIVE Shift(_, _)
Shift(k, n) == IF k >= n THEN 0 ELSE 1 + Shift(2 * k, n)

\* the next count bits of r / n, for r < n
RECURSIVE QuotientBits(_, _, _)
QuotientBits(r, n, count) ==
  IF count = 0 THEN <<>>
  ELSE LET b == IF 2 * r >= n THEN 1 ELSE 0
       IN <<b>> \o QuotientBits(2 * r - b * n, n, count - 1)

\* what is left of r after those bits
RECURSIVE RemainderAfter(_, _, _)
RemainderAfter(r, n, count) ==
  IF count = 0 THEN r
  ELSE IF 2 * r >= n THEN RemainderAfter(2 * r - n, n, count - 1)
  ELSE RemainderAfter(2 * r, n, count - 1)

\* k / n for integers 0 < k <= n
Divide(k, n) ==
  LET s == Shift(k, n)
      r0 == k * 2^s - n
      q == RoundToEven(<<1>> \o QuotientBits(r0, n, 53), RemainderAfter(r0, n, 53) # 0)
  IN [m |-> q.m, e |-> q.e - s - 53]

\* the bits of a natural number
RECURSIVE BitsOf(_)
BitsOf(n) == IF n = 0 THEN <<>> ELSE Append(BitsOf(n \div 2), n % 2)

\* bits * c + carry, for a small integer c
RECURSIVE TimesBits(_, _, _)
TimesBits(bits, c, carry) ==
  IF bits = <<>> THEN BitsOf(carry)
  ELSE LET d == bits[Len(bits)] * c + carry
       IN IF d % 2 = 0 THEN Append(TimesBits(SubSeq(bits, 1, Len(bits) - 1), c, d \div 2), 0)
          ELSE Append(TimesBits(SubSeq(bits, 1, Len(bits) - 1), c, d \div 2), 1)

\* x * c
Times(x, c) ==
  LET p == RoundToEven(TimesBits(x.m, c, 0), FALSE)
  IN [m |-> p.m, e |-> x.e + p.e]

\* the number a bit sequence writes
RECURSIVE IntOf(_)
IntOf(bits) ==
  IF bits = <<>> THEN 0 ELSE 2 * IntOf(SubSeq(bits, 1, Len(bits) - 1)) + bits[Len(bits)]

\* Math.floor(x)
Floor(x) == IF 53 + x.e <= 0 THEN 0 ELSE IntOf(SubSeq(x.m, 1, 53 + x.e))

\* the bug of computing the percentage from the loop index i
ProgressOfIndex(videoNumber, totalVideos) == ((videoNumber - 1) * 100) \div totalVideos

\* Math.floor((videoNumber / totalVideos) * 100): the values of the double
\* arithmetic for every batch length the specifications use
ProgressTable ==
  [totalVideos \in 1..MaxLong |->
     [videoNumber \in 1..totalVideos |->
        Floor(Times(Divide(videoNumber, totalVideos), 100))]]

ProgressOf(videoNumber, totalVideos) == ProgressTable[totalVideos][videoNumber]

\* x || fallback
OrElse(x, fallback) == IF x = Undef THEN fallback ELSE x

\* the bug of dropping the error text of the response body
HardReasonGeneric(stage, name, err) == <<"Failed", stage, name, UnknownError>>

\* `Failed to <stage> for ${videoName}: ${errorData.error || 'Unknown error'}`
HardReason(stage, name, err) == <<"Failed", stage, name, OrElse(err, UnknownError)>>

\* the bug of a checkpoint after every item
SaveDueAlways(videoNumber, totalVideos) == videoNumber >= 1

\* videoNumber % 5 === 0 || videoNumber === totalVideos
SaveDue(videoNumber, totalVideos) ==
  videoNumber % SaveEvery = 0 \/ videoNumber = totalVideos

\* ------------------------------------------------- responses of the service
\* A response is what one awaited exchange produces: the await rejects
\* (fetch or response.json() throws), the status is non-2xx with an optional
\* error text in the body, or the status is 2xx with the body's properties.
Response(net, error, failed, vibe, prompts, prompt) ==
  [net |-> net, error |-> error, failed |-> failed, vibe_extraction |-> vibe,
   image_prompts |-> prompts, video_prompt |-> prompt]

Pending == Response("pending", Undef, FALSE, Undef, NoLen, Undef)
Rejected == Response("reject", Undef, FALSE, Undef, NoLen, Undef)
HttpErrors == {Response("http", e, FALSE, Undef, NoLen, Undef) : e \in {Undef, ErrText}}

\* a 2xx vibe body: {failed?, error?, vibe_extraction?}
VibeBodies ==
  {Response("ok", e, f, v, NoLen, Undef) :
     e \in {Undef, ErrText}, f \in BOOLEAN, v \in {Undef, VibeText}}
  \ {Response("ok", ErrText, FALSE, VibeText, NoLen, Undef)}
VibeResponses == {Rejected} \cup HttpErrors \cup VibeBodies

\* a 2xx image-prompts body for S scenes: {image_prompts?}, of any length
ImageResponses ==
  [S \in 1..MaxScenes |->
     {Rejected} \cup HttpErrors \cup
     {Response("ok", Undef, FALSE, Undef, l, Undef) : l \in {NoLen, S - 1, S}}]

\* a 2xx video-prompt body: {video_prompt?}
VideoResponses ==
  {Rejected} \cup HttpErrors \cup
  {Response("ok", Undef, FALSE, Undef, NoLen, p) : p \in {Undef, PromptText}}

Outcomes == {"ok", "throw"}     \* of a call of an injected callback

\* the coarse repertoire used for long batches: a clean answer, a soft
\* failure with a reason, a non-2xx answer without a reason
CoarseVibe ==
  {Response("ok", Undef, FALSE, VibeText, NoLen, Undef),
   Response("ok", ErrText, TRUE, Undef, NoLen, Undef)}
CoarseImage == [S \in 1..MaxScenes |-> {Response("ok", Undef, FALSE, Undef, S, Undef)}]
CoarseVideo ==
  {Response("ok", Undef, FALSE, Undef, NoLen, PromptText),
   Response("http", Undef, FALSE, Undef, NoLen, Undef)}

\* the three kinds of service answer named by the interface contract
CleanVibe(v) == v.net = "ok" /\ ~v.failed /\ v.vibe_extraction # Undef
SoftFailure(v) == v.net = "ok" /\ (v.failed \/ v.vibe_extraction = Undef)
HardFailure(v) == v.net \in {"reject", "http"}

\* ------------------------------------------------------- component state
\* the useState initial values of BatchGeminiAnalysis
InitialCells ==
  [apiKey |-> "", isAnalyzing |-> FALSE, isComplete |-> FALSE,
   currentStep |-> <<>>, progress |-> 0, error |-> Undef,
   processedCount |-> 0, failedVideos |-> <<>>,
   life |-> "none",         \* "none": not constructed; "new": mounted,
                            \* mount effect pending; "live": effect has run
   effectDue |-> FALSE]     \* a dependency of the auto-start effect changed

Constructed == [InitialCells EXCEPT !.life = "new"]

\* no handleBatchAnalyze call yet
IdleRun ==
  [pc |-> "idle", vws |-> <<>>, i |-> 0, analyzedResults |-> <<>>,
   allAnalyses |-> <<>>, failures |-> <<>>, vibe |-> Undef, imagePrompts |-> NoLen,
   results |-> <<>>,        \* the results of the render whose closure runs
   enrichedBefore |-> FALSE,  \* an earlier run of the instance enriched an artifact
   started |-> 0]           \* how many runs this instance has started

\* one instance with everything an action of it may change
Bundle(n) ==
  [s |-> st[n], r |-> run[n], c |-> calls[n], x |-> exports[n], h |-> handed[n]]

\* rerender: the App's results array was replaced, which re-fires the
\* auto-start effect of the mounted instance (dependency [apiKey, results])
Commit(n, b, rerender) ==
  /\ st' = [k \in Inst |->
              LET cell == IF k = n THEN b.s ELSE st[k]
              IN IF rerender /\ k = mounted
                 THEN [cell EXCEPT !.effectDue = TRUE] ELSE cell]
  /\ run' = [run EXCEPT ![n] = b.r]
  /\ calls' = [calls EXCEPT ![n] = b.c]
  /\ exports' = [exports EXCEPT ![n] = b.x]
  /\ handed' = [handed EXCEPT ![n] = b.h]

\* --------------------------------------------------- handleBatchAnalyze
videoResult(r) == r.vws[r.i + 1]
videoNumber(r) == r.i + 1
totalVideos(r) == Len(r.vws)

\* the bug of sending a request again when the first attempt was rejected
FetchRetrying(b, stage) ==
  [b EXCEPT !.r.pc = stage,
            !.s.currentStep = <<stage, videoNumber(b.r), totalVideos(b.r)>>,
            !.c = @ \o <<[videoNumber |-> videoNumber(b.r), stage |-> stage,
                          id |-> videoResult(b.r).id, resp |-> Rejected],
                         [videoNumber |-> videoNumber(b.r), stage |-> stage,
                          id |-> videoResult(b.r).id, resp |-> Pending]>>]

\* a stage request leaves: it is outstanding until its Resolve action
Fetch(b, stage) ==
  [b EXCEPT !.r.pc = stage,
            !.s.currentStep = <<stage, videoNumber(b.r), totalVideos(b.r)>>,
            !.c = Append(@, [videoNumber |-> videoNumber(b.r), stage |-> stage,
                             id |-> videoResult(b.r).id, resp |-> Pending])]

\* the awaited exchange resolved with resp
Answered(b, resp) == [b EXCEPT !.c[Len(b.c)].resp = resp]

\* the bug of sending the first request of the next item along with this one
IterateAhead(b) ==
  IF b.r.i < Len(b.r.vws)
  THEN LET f == Fetch(b, "vibe")
       IN IF b.r.i + 1 < Len(b.r.vws)
          THEN [f EXCEPT !.c = Append(@, [videoNumber |-> b.r.i + 2, stage |-> "vibe",
                                          id |-> b.r.vws[b.r.i + 2].id, resp |-> Pending])]
          ELSE f
  ELSE [b EXCEPT !.r.pc = "finish"]

\* for (let i = 0; i < videosWithScenes.length; ...): the loop test, then
\* step 1 of the body up to its await
Iterate(b) ==
  IF b.r.i < Len(b.r.vws) THEN Fetch(b, "vibe") ELSE [b EXCEPT !.r.pc = "finish"]

\* the bug of advancing the index twice
ContinueSkips(b) ==
  Iterate([b EXCEPT !.r.i = @ + 2, !.r.vibe = Undef, !.r.imagePrompts = NoLen])

\* the end of one iteration (continue, or falling off the body): i++
Continue(b) ==
  Iterate([b EXCEPT !.r.i = @ + 1, !.r.vibe = Undef, !.r.imagePrompts = NoLen])

\* the four statements both failure paths share
NoteFailure(b, reason) ==
  LET f == [videoName |-> videoResult(b.r).videoName, reason |-> reason]
  IN [b EXCEPT !.r.failures = Append(@, f),
               !.s.failedVideos = Append(@, f),
               !.s.processedCount = videoNumber(b.r),
               !.s.progress = ProgressOf(videoNumber(b.r), totalVideos(b.r))]

\* the bug of a soft failure without its continue
SkipVideoFallsThrough(b, v) ==
  Fetch(NoteFailure(b, <<OrElse(v.error, DefaultReason)>>), "image")

\* the bug of dropping the reason the service gave
SkipVideoDefaultReason(b, v) == Continue(NoteFailure(b, <<DefaultReason>>))

\* if (vibeData.failed || !vibeData.vibe_extraction) { ...; continue; }
SkipVideo(b, v) == Continue(NoteFailure(b, <<OrElse(v.error, DefaultReason)>>))

\* the bug of leaving the loop on the first error
CatchVideoErrorAborts(b, message) ==
  [NoteFailure(b, message) EXCEPT !.r.pc = "finish"]

\* catch (videoError) { ...; continue; }
CatchVideoError(b, message) == Continue(NoteFailure(b, message))

\* if (!response.ok) throw new Error(`Failed to ...`), or the await rejected
Thrown(b, v, stage) ==
  IF v.net = "reject" THEN <<NetError>>
  ELSE HardReason(stage, videoResult(b.r).videoName, v.error)

\* const analysis = ...; const updatedResult = ...; the two pushes and the
\* two setters of the success path
StoreAnalysis(b, v) ==
  LET r == b.r
      analysis == [resultId |-> videoResult(r).id, vibe |-> r.vibe,
                   imagePrompts |-> r.imagePrompts, videoPrompt |-> v.video_prompt]
      updatedResult == [videoResult(r) EXCEPT !.vibe_description = analysis.vibe,
                                              !.image_prompts = analysis.imagePrompts,
                                              !.video_prompt = analysis.videoPrompt]
  IN [b EXCEPT !.r.allAnalyses = Append(@, analysis),
               !.r.analyzedResults = Append(@, updatedResult),
               !.s.processedCount = videoNumber(r),
               !.s.progress = ProgressOf(videoNumber(r), totalVideos(r))]

\* onAutoSaveCSV(analyzedResults, `-progress-${videoNumber}`)
AutoSave(b, saved) ==
  [b EXCEPT !.s.currentStep = <<"saving", videoNumber(b.r)>>,
            !.x = Append(@, [items |-> b.r.analyzedResults,
                             label |-> "-progress-", count |-> videoNumber(b.r),
                             threw |-> (saved = "throw")])]

\* lines 166-193 and what follows them: the export is called inside the
\* per-item try, so an exception of it lands in catch (videoError)
CompleteVideo(b, v, saved) ==
  LET stored == StoreAnalysis(b, v)
  IN IF SaveDue(videoNumber(b.r), totalVideos(b.r))
     THEN IF saved = "ok" THEN Continue(AutoSave(stored, saved))
          ELSE CatchVideoError(AutoSave(stored, saved), <<SaveError>>)
     ELSE Continue(stored)

\* apiKey.trim()
Trim(k) == IF k = " " THEN "" ELSE k

ApiKeyError == "API key not found"

\* the bug of resuming: a new run starts from the accumulators of the last
handleBatchAnalyzeResumes(b) ==
  IF Trim(b.s.apiKey) = ""
  THEN [b EXCEPT !.s.error = ApiKeyError]
  ELSE LET started ==
             [b EXCEPT !.s.isAnalyzing = TRUE, !.s.error = Undef,
                       !.s.isComplete = FALSE, !.s.processedCount = 0,
                       !.s.progress = 0, !.s.currentStep = <<"init">>,
                       !.s.failedVideos = <<>>,
                       !.r = [IdleRun EXCEPT
                                !.vws = videosWithScenes(results),
                                !.results = results,
                                !.analyzedResults = b.r.analyzedResults,
                                !.allAnalyses = b.r.allAnalyses,
                                !.enrichedBefore =
                                   b.r.enrichedBefore \/ Len(b.r.allAnalyses) > 0,
                                !.started = b.r.started + 1],
                       !.c = <<>>, !.x = <<>>, !.h = <<>>]
       IN IF Len(started.r.vws) = 0
          THEN [started EXCEPT !.s.isComplete = TRUE, !.s.isAnalyzing = FALSE]
          ELSE Iterate(started)

\* handleBatchAnalyze up to its first await
handleBatchAnalyze(b) ==
  IF Trim(b.s.apiKey) = ""
  THEN [b EXCEPT !.s.error = ApiKeyError]
  ELSE LET started ==
             [b EXCEPT !.s.isAnalyzing = TRUE, !.s.error = Undef,
                       !.s.isComplete = FALSE, !.s.processedCount = 0,
                       !.s.progress = 0, !.s.currentStep = <<"init">>,
                       !.s.failedVideos = <<>>,
                       !.r = [IdleRun EXCEPT !.vws = videosWithScenes(results),
                                             !.results = results,
                                             !.enrichedBefore =
                                                b.r.enrichedBefore \/ Len(b.r.allAnalyses) > 0,
                                             !.started = b.r.started + 1],
                       !.c = <<>>, !.x = <<>>, !.h = <<>>]
       IN IF Len(started.r.vws) = 0
          THEN [started EXCEPT !.s.isComplete = TRUE, !.s.isAnalyzing = FALSE]
          ELSE Iterate(started)

\* -------------------------------------------------------------- the App
\* the bug of matching the analysis of a result by its display name
MergedByName(rs, analyses) ==
  [k \in 1..Len(rs) |->
     LET hits == {j \in 1..Len(analyses) :
                    \E m \in 1..Len(rs) : /\ rs[m].id = analyses[j].resultId
                                          /\ rs[m].videoName = rs[k].videoName}
     IN IF hits = {} THEN rs[k]
        ELSE LET analysis == analyses[CHOOSE j \in hits : \A m \in hits : j <= m]
             IN [rs[k] EXCEPT !.vibe_description = analysis.vibe,
                              !.image_prompts = analysis.imagePrompts,
                              !.video_prompt = analysis.videoPrompt]]

\* handleBatchAnalysisComplete: setResults(prev => prev.map(...))
Merged(rs, analyses) ==
  [k \in 1..Len(rs) |->
     LET hits == {j \in 1..Len(analyses) : analyses[j].resultId = rs[k].id}
     IN IF hits = {} THEN rs[k]
        ELSE LET analysis == analyses[CHOOSE j \in hits : \A m \in hits : j <= m]
             IN [rs[k] EXCEPT !.vibe_description = analysis.vibe,
                              !.image_prompts = analysis.imagePrompts,
                              !.video_prompt = analysis.videoPrompt]]

\* array.find(p): the first element that satisfies p
First(S) == CHOOSE j \in S : \A m \in S : j <= m

\* handleBatchAnalysisComplete: setHistory(prev => prev.map(...)), where
\* `results` is the array of the render that made the callback
MergedHistory(hs, closure, analyses) ==
  [k \in 1..Len(hs) |->
     LET named == {j \in 1..Len(closure) : closure[j].videoName = hs[k].videoName}
     IN IF named = {} THEN hs[k]
        ELSE LET result == closure[First(named)]
                 hits == {j \in 1..Len(analyses) : analyses[j].resultId = result.id}
             IN IF hits = {} THEN hs[k]
                ELSE LET analysis == analyses[First(hits)]
                     IN [hs[k] EXCEPT !.vibe_description = analysis.vibe,
                                      !.image_prompts = analysis.imagePrompts,
                                      !.video_prompt = analysis.videoPrompt]]

\* handleBatchAnalysisComplete(analyses), called through the
\* onAnalysisComplete of a render whose results were `closure`
handleBatchAnalysisComplete(closure, analyses) ==
  /\ results' = Merged(results, analyses)
  /\ history' = MergedHistory(history, closure, analyses)

\* addToHistory: setHistory(prev => [newItem, ...prev]), once per result
RECURSIVE addToHistory(_, _)
addToHistory(hs, rs) ==
  IF rs = <<>> THEN hs
  ELSE addToHistory(<<HistoryItem(Head(rs).id, Head(rs).videoName, Head(rs).scenes)>> \o hs,
                    Tail(rs))

\* ----------------------------------------------------------- the actions
\* what the export of one record reads and writes
exportVars == <<jsonData, jsonString, parsed>>

StageVerb(stage) ==
  IF stage = "vibe" THEN "extract vibe"
  ELSE IF stage = "image" THEN "generate image prompts"
  ELSE "generate video prompt"

AppUnchanged ==
  UNCHANGED <<results, history, mounted, envKey, upload, nextId, currentIndex, exportVars>>

\* useEffect(() => setApiKey(import.meta.env.VITE_GEMINI_API_KEY || ''), []).
\* The auto-start effect of the mount itself sees apiKey = '' and does
\* nothing; it is due again when the key changes the apiKey cell.
LoadApiKey(n) ==
  /\ mounted = n
  /\ st[n].life = "new"
  /\ Commit(n, [Bundle(n) EXCEPT !.s.apiKey = envKey, !.s.life = "live",
                                 !.s.effectDue = (envKey # "")], FALSE)
  /\ AppUnchanged

\* the bug of an effect that does not look at isAnalyzing
IdleOrAnalyzing(s) == ~s.isComplete /\ s.error = Undef

\* !isComplete && !isAnalyzing && !error
Idle(s) == ~s.isComplete /\ ~s.isAnalyzing /\ s.error = Undef

\* useEffect(() => { if (apiKey && results.length > 0 && ...) ... }, [apiKey, results])
AutoStart(n) ==
  /\ mounted = n
  /\ st[n].effectDue
  /\ LET s == st[n]
         b == [Bundle(n) EXCEPT !.s.effectDue = FALSE]
     IN IF s.apiKey # "" /\ Len(results) > 0 /\ Idle(s)
        THEN IF Len(videosWithScenes(results)) > 0
             THEN Commit(n, handleBatchAnalyze(b), FALSE) /\ UNCHANGED <<results, history>>
             ELSE /\ Commit(n, [b EXCEPT !.s.isComplete = TRUE,
                                         !.h = Append(@, <<>>)], TRUE)
                  /\ handleBatchAnalysisComplete(results, <<>>)
        ELSE Commit(n, b, FALSE) /\ UNCHANGED <<results, history>>
  /\ UNCHANGED <<mounted, envKey, upload, nextId, currentIndex, exportVars>>

\* the Retry Analysis button, rendered while error is set and the results
\* hold an eligible video (lines 244-253, 314-324)
Retry(n) ==
  /\ mounted = n
  /\ st[n].error # Undef
  /\ Len(videosWithScenes(results)) > 0
  /\ run[n].started < MaxRuns
  /\ Commit(n, handleBatchAnalyze(Bundle(n)), FALSE)
  /\ AppUnchanged

\* the vibe-extraction exchange resolves: lines 103-125
ResolveVibe(n, Rs) ==
  /\ run[n].pc = "vibe"
  /\ \E v \in Rs :
       LET b == Answered(Bundle(n), v)
       IN Commit(n,
            IF v.net # "ok" THEN CatchVideoError(b, Thrown(b, v, StageVerb("vibe")))
            ELSE IF v.failed \/ v.vibe_extraction = Undef THEN SkipVideo(b, v)
            ELSE Fetch([b EXCEPT !.r.vibe = v.vibe_extraction], "image"),
            FALSE)
  /\ AppUnchanged

\* the image-prompts exchange resolves: lines 140-157
ResolveImage(n, Rs) ==
  /\ run[n].pc = "image"
  /\ \E v \in Rs[videoResult(run[n]).scenes] :
       LET b == Answered(Bundle(n), v)
       IN Commit(n,
            IF v.net # "ok" THEN CatchVideoError(b, Thrown(b, v, StageVerb("image")))
            ELSE Fetch([b EXCEPT !.r.imagePrompts = v.image_prompts], "video"),
            FALSE)
  /\ AppUnchanged

\* the video-prompt exchange resolves: lines 159-208
ResolveVideo(n, Rs, Saves) ==
  /\ run[n].pc = "video"
  /\ \E v \in Rs, saved \in Saves :
       LET b == Answered(Bundle(n), v)
       IN Commit(n,
            IF v.net # "ok" THEN CatchVideoError(b, Thrown(b, v, StageVerb("video")))
            ELSE CompleteVideo(b, v, saved),
            FALSE)
  /\ AppUnchanged

\* `Completed with ${failures.length} failure(s). ${allAnalyses.length}
\* video(s) analyzed successfully.` or 'All videos analyzed successfully!'
Summary(r) ==
  IF Len(r.failures) > 0
  THEN <<"warnings", Len(r.failures), Len(r.allAnalyses)>>
  ELSE <<"success">>

\* the bug of a finally block that leaves isAnalyzing set
TerminateStaysAnalyzing(b) ==
  [b EXCEPT !.s.progress = 100, !.s.currentStep = Summary(b.r),
            !.h = Append(@, b.r.allAnalyses), !.r.pc = "done"]

\* lines 211-221 up to the call of onAnalysisComplete, and the finally
\* block of line 240, which runs whatever the call does
Terminate(b) ==
  [b EXCEPT !.s.progress = 100, !.s.currentStep = Summary(b.r),
            !.h = Append(@, b.r.allAnalyses), !.s.isAnalyzing = FALSE,
            !.r.pc = "done"]

\* the bug of a catch block without the emergency export
CatchErrorSavesNothing(b, message, saved) == [b EXCEPT !.s.error = message]

\* catch (err) { setError(errorMessage); if (analyzedResults.length > 0)
\* { try { onAutoSaveCSV(...) } catch (saveError) { } } }
CatchError(b, message, saved) ==
  [b EXCEPT !.s.error = message,
            !.x = IF Len(b.r.analyzedResults) > 0
                  THEN Append(@, [items |-> b.r.analyzedResults,
                                  label |-> "-partial-error-recovery",
                                  count |-> 0, threw |-> (saved = "throw")])
                  ELSE @]

\* the bug of a normal end that leaves isComplete unset
CompletedUnmarked(b) == b

\* setIsComplete(true), line 222
Completed(b) == [b EXCEPT !.s.isComplete = TRUE]

\* after the loop: lines 211-241
Finish(n, Merges) ==
  /\ run[n].pc = "finish"
  /\ \E merge \in Merges, saved \in Outcomes :
       LET r == run[n]
           ended == Terminate(Bundle(n))
       IN IF merge = "ok"
          THEN /\ handleBatchAnalysisComplete(r.results, r.allAnalyses)
               /\ Commit(n, Completed(ended), TRUE)
          ELSE /\ UNCHANGED <<results, history>>
               /\ Commit(n, CatchError(ended, MergeError, saved), FALSE)
  /\ UNCHANGED <<mounted, envKey, upload, nextId, currentIndex, exportVars>>

\* ---------------------------------------------------- the specifications
\* no export under way
undefined == [t |-> "undefined"]
NothingExported == jsonData = undefined /\ jsonString = <<>> /\ parsed = undefined

ApiKeys == {"", " ", "key"}

\* the shapes of artifact an upload can produce, as <<scene count, file
\* size>>: eligible, no scenes, scenes missing, empty file
Shapes == {<<MaxScenes, 1>>, <<0, 1>>, <<NoLen, 1>>, <<MaxScenes, 0>>}

Batch(shapes, first) ==
  [k \in 1..Len(shapes) |->
     Artifact(first + k - 1, NameOf(k), shapes[k][1], shapes[k][2])]

SeqsUpTo(S, n) == UNION {[1..k -> S] : k \in 1..n}

\* an upload whose files may share a base name (x.mp4 and x.mov)
NamedBatch(shapes, names, first) ==
  [k \in 1..Len(shapes) |->
     Artifact(first + k - 1, names[k], shapes[k][1], shapes[k][2])]

InitWith(batches, keys) ==
  /\ results \in batches
  /\ history = addToHistory(<<>>, results)
  /\ mounted = 1
  /\ st = [n \in Inst |-> IF n = 1 THEN Constructed ELSE InitialCells]
  /\ run = [n \in Inst |-> IdleRun]
  /\ calls = [n \in Inst |-> <<>>]
  /\ exports = [n \in Inst |-> <<>>]
  /\ handed = [n \in Inst |-> <<>>]
  /\ envKey \in keys
  /\ upload = "idle"
  /\ nextId = Len(results) + 1
  /\ currentIndex = 0
  /\ NothingExported

\* one mounted component over a short batch, every response shape
Init == InitWith({Batch(sh, 1) : sh \in SeqsUpTo(Shapes, MaxVideos)}, ApiKeys)

Next ==
  \E n \in Inst :
    \/ LoadApiKey(n)
    \/ AutoStart(n)
    \/ Retry(n)
    \/ ResolveVibe(n, VibeResponses)
    \/ ResolveImage(n, ImageResponses)
    \/ ResolveVideo(n, VideoResponses, Outcomes)
    \/ Finish(n, Outcomes)

Spec == Init /\ [][Next]_vars

\* ------------------------------------------- long batches, coarse answers
InitBatch ==
  InitWith({Batch([k \in 1..len |-> <<1, 1>>], 1) : len \in 1..MaxBatch}, {"key"})

NextBatch ==
  \E n \in Inst :
    \/ LoadApiKey(n)
    \/ AutoStart(n)
    \/ Retry(n)
    \/ ResolveVibe(n, CoarseVibe)
    \/ ResolveImage(n, CoarseImage)
    \/ ResolveVideo(n, CoarseVideo, Outcomes)
    \/ Finish(n, Outcomes)

SpecBatch == InitBatch /\ [][NextBatch]_vars

\* ------------------------------------ the longest batches, every call succeeds
OkVibe == {Response("ok", Undef, FALSE, VibeText, NoLen, Undef)}
OkVideo == {Response("ok", Undef, FALSE, Undef, NoLen, PromptText)}

InitLong ==
  InitWith({Batch([k \in 1..len |-> <<1, 1>>], 1) : len \in {MaxLong - 1, MaxLong}}, {"key"})

NextLong ==
  \E n \in Inst :
    \/ LoadApiKey(n)
    \/ AutoStart(n)
    \/ ResolveVibe(n, OkVibe)
    \/ ResolveImage(n, CoarseImage)
    \/ ResolveVideo(n, OkVideo, {"ok"})
    \/ Finish(n, {"ok"})

SpecLong == InitLong /\ [][NextLong]_vars

\* ------------------------------------- batches with repeated display names
MergeShapes == {<<1, 1>>, <<MaxScenes, 1>>, <<0, 1>>}
MergeNames == {NameOf(1), NameOf(2)}

InitMerge ==
  InitWith(UNION {{NamedBatch(sh, nm, 1) :
                     sh \in [1..len -> MergeShapes], nm \in [1..len -> MergeNames]} :
                  len \in 1..MaxMerge}, {"key"})

SpecMerge == InitMerge /\ [][NextBatch]_vars

\* ----------------------------------------------------------- the carousel
\* const currentResult = results[currentIndex] and the uses of it: with an
\* index past the end the render of ResultsCarousel throws a TypeError, and
\* React takes the whole tree down
Rendered == Len(results) > 0 => currentIndex < Len(results)

\* currentResult.jsonData.scenes && currentResult.jsonData.scenes.length > 0
WithScenes(r) == r.scenes # NoLen /\ r.scenes > 0

\* the next BatchGeminiAnalysis instance to construct
FreshInst ==
  CHOOSE k \in Inst : st[k].life = "none" /\ \A j \in 1..(k - 1) : st[j].life # "none"

\* setCurrentIndex(j).  BatchGeminiAnalysis is the third child of the layout
\* when the result shown has scenes and the second when it has none, so a
\* change from the one to the other unmounts the instance (its run is not
\* cancelled) and constructs a new one.
Navigate(j) ==
  /\ currentIndex' = j
  /\ IF WithScenes(results[j + 1]) = WithScenes(results[currentIndex + 1])
     THEN UNCHANGED <<mounted, st>>
     ELSE /\ \E n \in Inst : st[n].life = "none"
          /\ mounted' = FreshInst
          /\ st' = [st EXCEPT ![FreshInst] = Constructed]
  /\ UNCHANGED <<results, history, run, calls, exports, handed, envKey, upload, nextId,
                 exportVars>>

\* the arrows are rendered in the layout with scenes, for more than one result
handlePrevious ==
  /\ upload = "idle" /\ Len(results) > 1 /\ Rendered
  /\ WithScenes(results[currentIndex + 1])
  /\ Navigate(IF currentIndex > 0 THEN currentIndex - 1 ELSE Len(results) - 1)

handleNext ==
  /\ upload = "idle" /\ Len(results) > 1 /\ Rendered
  /\ WithScenes(results[currentIndex + 1])
  /\ Navigate(IF currentIndex < Len(results) - 1 THEN currentIndex + 1 ELSE 0)

\* the dots are rendered for more than one result
SelectDot(index) ==
  /\ upload = "idle" /\ Len(results) > 1 /\ Rendered
  /\ index \in 0..(Len(results) - 1)
  /\ Navigate(index)

\* viewHistoryItem, from the View button of an entry of the History modal:
\* setResults([singleResult]).  A carousel that is shown keeps its
\* currentIndex.
viewHistoryItem(k) ==
  /\ upload = "idle" /\ Rendered
  /\ k \in 1..Len(history)
  /\ nextId <= MaxIds
  /\ LET item == history[k]
         singleResult ==
           [id |-> nextId, videoName |-> item.videoName, scenes |-> item.scenes,
            fileSize |-> 0, vibe_description |-> item.vibe_description,
            image_prompts |-> item.image_prompts, video_prompt |-> item.video_prompt]
         shown == Len(results) > 0
         throws == shown /\ currentIndex > 0
         keeps == shown /\ currentIndex = 0
                  /\ WithScenes(results[1]) = WithScenes(singleResult)
     IN /\ results' = <<singleResult>>
        /\ nextId' = nextId + 1
        /\ currentIndex' = IF shown THEN currentIndex ELSE 0
        /\ IF throws THEN mounted' = 0 /\ st' = st
           ELSE IF keeps
           THEN mounted' = mounted /\ st' = [st EXCEPT ![mounted].effectDue = TRUE]
           ELSE /\ \E n \in Inst : st[n].life = "none"
                /\ mounted' = FreshInst
                /\ st' = [st EXCEPT ![FreshInst] = Constructed]
  /\ UNCHANGED <<history, run, calls, exports, handed, envKey, upload, exportVars>>

ViewShapes == {<<1, 1>>, <<0, 1>>}

InitView ==
  InitWith({Batch(sh, 1) : sh \in SeqsUpTo(ViewShapes, MaxView)}, {"key"})

NextView ==
  \/ handlePrevious
  \/ handleNext
  \/ \E index \in 0..(MaxView - 1) : SelectDot(index)
  \/ \E k \in 1..MaxView : viewHistoryItem(k)
  \/ \E n \in Inst :
       \/ LoadApiKey(n)
       \/ AutoStart(n)
       \/ Retry(n)
       \/ ResolveVibe(n, OkVibe)
       \/ ResolveImage(n, CoarseImage)
       \/ ResolveVideo(n, OkVideo, {"ok"})
       \/ Finish(n, Outcomes)

SpecView == InitView /\ [][NextView]_vars

\* ------------------------------------- the carousel, navigation only
NextNav ==
  \/ handlePrevious
  \/ handleNext
  \/ \E index \in 0..(MaxView - 1) : SelectDot(index)
  \/ \E n \in Inst :
       \/ LoadApiKey(n)
       \/ AutoStart(n)
       \/ Retry(n)
       \/ ResolveVibe(n, OkVibe)
       \/ ResolveImage(n, CoarseImage)
       \/ ResolveVideo(n, OkVideo, {"ok"})
       \/ Finish(n, Outcomes)

SpecNav == InitView /\ [][NextNav]_vars

\* -------------------------------------------------------- the application
\* resetState: "Analyze More" (results shown) and "Try Again" (error shown).
\* The carousel and with it the BatchGeminiAnalysis instance unmount; a
\* handleBatchAnalyze call of that instance is not cancelled.
ResetState ==
  /\ Len(results) > 0 \/ upload = "error"
  /\ Rendered
  /\ results' = <<>>
  /\ mounted' = 0
  /\ upload' = "idle"
  /\ currentIndex' = 0
  /\ UNCHANGED <<history, st, run, calls, exports, handed, envKey, nextId, exportVars>>

\* handleFileUpload up to its first await; the UploadZone is rendered only
\* with no error, no results and no upload under way
FileUpload ==
  /\ upload = "idle" /\ Len(results) = 0
  /\ \E n \in Inst : st[n].life = "none"
  /\ upload' = "loading"
  /\ UNCHANGED <<results, history, mounted, st, run, calls, exports, handed, envKey, nextId,
                 currentIndex, exportVars>>

\* handleFileUpload after its last await: setResults(newResults), which
\* renders the carousel and constructs a BatchGeminiAnalysis instance
UploadDone(shapes) ==
  /\ upload = "loading"
  /\ LET n == CHOOSE k \in Inst : st[k].life = "none" /\ \A j \in 1..(k - 1) : st[j].life # "none"
     IN /\ results' = Batch(shapes, nextId)
        /\ history' = addToHistory(history, Batch(shapes, nextId))
        /\ nextId' = nextId + Len(shapes)
        /\ mounted' = n
        /\ st' = [st EXCEPT ![n] = Constructed]
  /\ upload' = "idle"
  /\ currentIndex' = 0
  /\ UNCHANGED <<run, calls, exports, handed, envKey, exportVars>>

\* analyzeVideoForScenes throws: setError, setProgressStage(IDLE); the files
\* analysed before the one that failed are in the history already
UploadFail(shapes) ==
  /\ upload = "loading"
  /\ upload' = "error"
  /\ history' = addToHistory(history, Batch(shapes, nextId))
  /\ nextId' = nextId + Len(shapes)
  /\ UNCHANGED <<results, mounted, st, run, calls, exports, handed, envKey, currentIndex,
                 exportVars>>

AppShapes == {<<1, 1>>, <<0, 1>>}

InitApp ==
  /\ results = <<>>
  /\ history = <<>>
  /\ mounted = 0
  /\ st = [n \in Inst |-> InitialCells]
  /\ run = [n \in Inst |-> IdleRun]
  /\ calls = [n \in Inst |-> <<>>]
  /\ exports = [n \in Inst |-> <<>>]
  /\ handed = [n \in Inst |-> <<>>]
  /\ envKey = "key"
  /\ upload = "idle"
  /\ nextId = 1
  /\ currentIndex = 0
  /\ NothingExported

NextApp ==
  \/ ResetState
  \/ FileUpload
  \/ \E shapes \in {<<>>} \cup SeqsUpTo(AppShapes, MaxAppVideos - 1) : UploadFail(shapes)
  \/ \E shapes \in SeqsUpTo(AppShapes, MaxAppVideos) : UploadDone(shapes)
  \/ \E n \in Inst :
       \/ LoadApiKey(n)
       \/ AutoStart(n)
       \/ ResolveVibe(n, CoarseVibe)
       \/ ResolveImage(n, CoarseImage)
       \/ ResolveVideo(n, CoarseVideo, Outcomes)
       \/ Finish(n, {"ok"})

SpecApp == InitApp /\ [][NextApp]_vars

\* ------------------------------------------------------------ properties
\* What the properties read off a run: its request log, its accumulators
\* and its position.
NumVideos(n) == Len(run[n].vws)
InRun(n) == run[n].pc \in Stages \cup {"finish", "done"}
Ended(n) == run[n].pc = "done"
EndedNormally(n) == Ended(n) /\ st[n].error = Undef

CallsOf(n, k) == {j \in 1..Len(calls[n]) : calls[n][j].videoNumber = k}
Issued(n, k, stage) == \E j \in CallsOf(n, k) : calls[n][j].stage = stage

\* the answer to a request is a failure of its stage
StageFailed(c) ==
  \/ c.resp.net \in {"reject", "http"}
  \/ c.stage = "vibe" /\ c.resp.net = "ok"
       /\ (c.resp.failed \/ c.resp.vibe_extraction = Undef)
FailedAtStage(n, k) == \E j \in CallsOf(n, k) : StageFailed(calls[n][j])

\* item k went through its last stage
PassedAllStages(n, k) ==
  \E j \in CallsOf(n, k) : calls[n][j].stage = "video" /\ calls[n][j].resp.net = "ok"

InSuccesses(n, k) ==
  \E j \in 1..Len(run[n].analyzedResults) :
     run[n].analyzedResults[j].id = run[n].vws[k].id
InFailures(n, k) ==
  \E j \in 1..Len(run[n].failures) :
     run[n].failures[j].videoName = run[n].vws[k].videoName
\* items 1..i of the batch have been left by the loop
Settled(n, k) == InRun(n) /\ k <= run[n].i

\* ---- C1 ----------------------------------------------------------------
\* C1: at the normal end of a run over N eligible artifacts of which M failed
\* at some stage, allAnalyses and analyzedResults hold N - M entries, failures
\* holds M entries, and every artifact is in exactly one of the accumulators.
C1_Accumulators ==
  \A n \in Inst :
    EndedNormally(n) =>
      LET N == NumVideos(n)
          M == Cardinality({k \in 1..N : FailedAtStage(n, k)})
      IN /\ Len(run[n].allAnalyses) = N - M
         /\ Len(run[n].analyzedResults) = N - M
         /\ Len(run[n].failures) = M
         /\ \A k \in 1..N : InSuccesses(n, k) # InFailures(n, k)

\* ---- C2 ----------------------------------------------------------------
\* One answer per path of the code: every stage fails hard once, the vibe
\* stage also fails softly, every stage succeeds.
EachVibe ==
  {Rejected, Response("http", Undef, FALSE, Undef, NoLen, Undef),
   Response("ok", ErrText, TRUE, Undef, NoLen, Undef),
   Response("ok", Undef, FALSE, VibeText, NoLen, Undef)}
EachImage ==
  [S \in 1..MaxScenes |->
     {Response("http", ErrText, FALSE, Undef, NoLen, Undef),
      Response("ok", Undef, FALSE, Undef, S, Undef)}]
EachVideo ==
  {Rejected, Response("ok", Undef, FALSE, Undef, NoLen, PromptText)}

InitFair ==
  InitWith({Batch([k \in 1..len |-> <<1, 1>>], 1) : len \in 1..MaxVideos}, {"key"})

\* the steps of a started component: its effects and the continuations of
\* handleBatchAnalyze
Advance ==
  \E n \in Inst :
    \/ LoadApiKey(n)
    \/ AutoStart(n)
    \/ ResolveVibe(n, EachVibe)
    \/ ResolveImage(n, EachImage)
    \/ ResolveVideo(n, EachVideo, Outcomes)
    \/ Finish(n, Outcomes)

NextFair == Advance \/ \E n \in Inst : Retry(n)

\* every exchange that was issued resolves, and the continuation of the
\* async function then runs (the event loop runs a settled promise's
\* continuation; fetch is assumed to settle)
FairSpec == InitFair /\ [][NextFair]_vars /\ WF_vars(Advance)

HasOutcome(n, k) == InSuccesses(n, k) \/ InFailures(n, k)

FailedItem(n, k) == InRun(n) /\ k <= NumVideos(n) /\ FailedAtStage(n, k)
LaterItemsDone(n, k) ==
  /\ InRun(n)
  /\ \A j \in (k + 1)..NumVideos(n) : Issued(n, j, "vibe") /\ HasOutcome(n, j)

\* C2: a soft or hard failure of the item at position k never aborts the
\* batch: the vibe-extraction call of every later item is still issued and
\* every later item ends in the success or in the failure accumulator.
C2_BatchContinues ==
  \A n \in Inst : \A k \in 1..MaxVideos :
    FailedItem(n, k) ~> LaterItemsDone(n, k)

C2_Witness ==
  \E n \in Inst :
    /\ NumVideos(n) >= 2 /\ FailedAtStage(n, 1)
    /\ Issued(n, 2, "vibe") /\ HasOutcome(n, 2)

\* ---- C3 ----------------------------------------------------------------
ProgressExports(n) ==
  {j \in 1..Len(exports[n]) : exports[n][j].label = "-progress-"}

\* C3: after every 5th item and after the last item, whatever the item's
\* outcome, the checkpoint export has been invoked (once), and a normally
\* ended run over N items has invoked it once per multiple of 5 up to N and
\* once more when N is no multiple of 5.
C3_Checkpoints ==
  \A n \in Inst :
    /\ \A k \in 1..NumVideos(n) :
         Settled(n, k) /\ (k % 5 = 0 \/ k = NumVideos(n)) =>
           Cardinality({j \in ProgressExports(n) : exports[n][j].count = k}) = 1
    /\ EndedNormally(n) =>
         Cardinality(ProgressExports(n)) = (NumVideos(n) + 4) \div 5

\* ---- C4 ----------------------------------------------------------------
CallOf(n, k, stage) ==
  calls[n][CHOOSE j \in CallsOf(n, k) : calls[n][j].stage = stage]

\* the artifact of position k with the enrichment the service answered
Enriched(n, k) ==
  [run[n].vws[k] EXCEPT
     !.vibe_description = CallOf(n, k, "vibe").resp.vibe_extraction,
     !.image_prompts = CallOf(n, k, "image").resp.image_prompts,
     !.video_prompt = CallOf(n, k, "video").resp.video_prompt]

CompletedUpTo(n, k) ==
  LET passed == SelectSeq([j \in 1..k |-> j], LAMBDA j : PassedAllStages(n, j))
  IN [m \in 1..Len(passed) |-> Enriched(n, passed[m])]

PositionOf(n, item) == CHOOSE k \in 1..NumVideos(n) : run[n].vws[k].id = item.id

\* C4: the checkpoint export after item k is called with the enriched
\* artifacts of the items of positions 1..k that completed, in batch order,
\* with none of the earlier items that failed, and with the count k.
C4_CheckpointContents ==
  \A n \in Inst : \A j \in ProgressExports(n) :
    LET e == exports[n][j]
    IN /\ e.items = CompletedUpTo(n, e.count)
       /\ \A m \in 1..Len(e.items) :
            PositionOf(n, e.items[m]) < e.count =>
              ~InFailures(n, PositionOf(n, e.items[m]))

\* ---- C5 ----------------------------------------------------------------
SameRun(n) == run'[n].started = run[n].started

\* C5: within one run the progress percentage never decreases, and it is
\* exactly 100 once the last item has been processed, whatever the outcomes.
C5_Progress ==
  /\ [](\A n \in Inst : run[n].pc \in {"finish", "done"} => st[n].progress = 100)
  /\ [][\A n \in Inst : SameRun(n) => st'[n].progress >= st[n].progress]_vars

C5_Witness ==
  \E n \in Inst :
    /\ run[n].pc = "finish" /\ st[n].progress = 100
    /\ Len(run[n].failures) > 0 /\ Len(run[n].analyzedResults) > 0

\* ---- C6 ----------------------------------------------------------------
\* C6: no artifact is in the success accumulator with a number of image
\* prompts that differs from its number of scenes.
C6_PromptCount ==
  \A n \in Inst : \A j \in 1..Len(run[n].analyzedResults) :
    run[n].analyzedResults[j].image_prompts = run[n].analyzedResults[j].scenes

\* ---- C7 ----------------------------------------------------------------
Outstanding == {n \in Inst : run[n].pc \in Stages}

\* C7: at most one stage request is outstanding at any moment.
C7_OneCallOutstanding == Cardinality(Outstanding) <= 1

\* ---- C8 ----------------------------------------------------------------
InBatchOrder(n) ==
  \A j \in 1..Len(calls[n]) :
    /\ calls[n][j].id = run[n].vws[calls[n][j].videoNumber].id
    /\ \A m \in 1..(j - 1) : calls[n][m].videoNumber <= calls[n][j].videoNumber

OutcomesInOrder(n) ==
  \A k \in 1..NumVideos(n) :
    /\ Issued(n, k, "vibe") => \A m \in 1..(k - 1) : HasOutcome(n, m)
    /\ HasOutcome(n, k) => \A m \in 1..(k - 1) : HasOutcome(n, m)
    /\ HasOutcome(n, k) => \A m \in (k + 1)..NumVideos(n) : ~Issued(n, m, "vibe") \/ Settled(n, k)

ExportsInOrder(n) ==
  \A j \in ProgressExports(n) : \A m \in ProgressExports(n) :
    m < j => exports[n][m].count < exports[n][j].count

StepPosition(s) == IF Len(s.currentStep) >= 2 THEN s.currentStep[2] ELSE 0

\* C8: artifacts are processed in the order of the batch: a request of item j
\* is issued only when every earlier item has its outcome, and the processed
\* count, the position named by the progress text and the count of the
\* checkpoint exports only grow within a run.
C8_Order ==
  /\ [](\A n \in Inst : InRun(n) =>
          InBatchOrder(n) /\ OutcomesInOrder(n) /\ ExportsInOrder(n))
  /\ [][\A n \in Inst : SameRun(n) /\ run'[n].pc \in Stages =>
          /\ st'[n].processedCount # st[n].processedCount
               => st'[n].processedCount > st[n].processedCount
          /\ StepPosition(st'[n]) >= StepPosition(st[n])
          /\ StepPosition(st'[n]) = st'[n].processedCount + 1]_vars

C8_Witness ==
  \E n \in Inst :
    /\ NumVideos(n) >= 3 /\ run[n].pc = "vibe" /\ run[n].i = 2
    /\ InSuccesses(n, 1) /\ InFailures(n, 2)

\* ---- C9 ----------------------------------------------------------------
\* the requests of one item follow vibe, image, video, each only after the
\* success of the one before, and nothing follows a failure
StageOrder(n) ==
  \A j \in 1..Len(calls[n]) :
    LET c == calls[n][j]
    IN /\ c.stage = "vibe" =>
            j = 1 \/ calls[n][j - 1].videoNumber = c.videoNumber - 1
       /\ c.stage = "image" =>
            /\ j > 1 /\ calls[n][j - 1].videoNumber = c.videoNumber
            /\ calls[n][j - 1].stage = "vibe" /\ CleanVibe(calls[n][j - 1].resp)
       /\ c.stage = "video" =>
            /\ j > 1 /\ calls[n][j - 1].videoNumber = c.videoNumber
            /\ calls[n][j - 1].stage = "image" /\ calls[n][j - 1].resp.net = "ok"
       /\ StageFailed(c) =>
            \A m \in (j + 1)..Len(calls[n]) : calls[n][m].videoNumber > c.videoNumber

SoftItems(n) ==
  {k \in 1..NumVideos(n) :
     \E j \in CallsOf(n, k) : calls[n][j].stage = "vibe" /\ SoftFailure(calls[n][j].resp)}

RecordsOf(n, k) ==
  {j \in 1..Len(run[n].failures) :
     run[n].failures[j].videoName = run[n].vws[k].videoName}

\* C10: a soft vibe failure puts exactly one FailureRecord for the item into
\* failures and failedVideos, with the error text of the service when there
\* is one and "API returned no content" otherwise; no image-prompts or
\* video-prompt request is issued for the item, and it counts as processed.
C10_SoftFailure ==
  \A n \in Inst : \A k \in SoftItems(n) :
    LET body == CallOf(n, k, "vibe").resp
        reason == IF body.error # Undef THEN <<body.error>>
                  ELSE <<"API returned no content">>
    IN /\ Cardinality(RecordsOf(n, k)) = 1
       /\ \A j \in RecordsOf(n, k) :
            /\ run[n].failures[j].reason = reason
            /\ st[n].failedVideos[j] = run[n].failures[j]
       /\ ~Issued(n, k, "image") /\ ~Issued(n, k, "video")
       /\ ~InSuccesses(n, k)
       /\ run[n].i >= k
       /\ st[n].processedCount >= k

C10_Witness ==
  \E n \in Inst :
    /\ NumVideos(n) = 2 /\ SoftItems(n) = {1, 2}
    /\ CallOf(n, 1, "vibe").resp.error = ErrText
    /\ CallOf(n, 2, "vibe").resp.error = Undef
    /\ st[n].processedCount = 2

\* ---- C11 ---------------------------------------------------------------
HardItems(n) ==
  {k \in 1..NumVideos(n) : \E j \in CallsOf(n, k) : HardFailure(calls[n][j].resp)}

\* the request of item k that failed hard
HardCall(n, k) == CHOOSE j \in CallsOf(n, k) : HardFailure(calls[n][j].resp)

\* C11: a rejected exchange or a non-2xx answer at any of the three stages
\* puts exactly one FailureRecord for the item into failures and
\* failedVideos; its reason carries the error text of the response body
\* when there is one, "Unknown error" when the body has none, and the
\* message of the rejection when the exchange rejected; the item counts as
\* processed, has no later request and no entry in either success
\* accumulator.
C11_HardFailure ==
  \A n \in Inst : \A k \in HardItems(n) :
    LET c == calls[n][HardCall(n, k)]
        text == IF c.resp.error # Undef THEN c.resp.error ELSE "Unknown error"
        reason == IF c.resp.net = "reject" THEN <<"Failed to fetch">>
                  ELSE <<"Failed", StageVerb(c.stage), run[n].vws[k].videoName, text>>
    IN /\ Cardinality(RecordsOf(n, k)) = 1
       /\ \A j \in RecordsOf(n, k) :
            /\ run[n].failures[j] = [videoName |-> run[n].vws[k].videoName,
                                     reason |-> reason]
            /\ st[n].failedVideos[j] = run[n].failures[j]
       /\ \A j \in CallsOf(n, k) : j <= HardCall(n, k)
       /\ ~InSuccesses(n, k)
       /\ \A j \in 1..Len(run[n].allAnalyses) :
            run[n].allAnalyses[j].resultId # run[n].vws[k].id
       /\ run[n].i >= k
       /\ st[n].processedCount >= k

C11_Witness ==
  \E n \in Inst :
    /\ NumVideos(n) = 2 /\ HardItems(n) = {1, 2} /\ Len(run[n].failures) = 2
    /\ calls[n][HardCall(n, 1)].stage = "image"
    /\ calls[n][HardCall(n, 1)].resp.error = ErrText
    /\ calls[n][HardCall(n, 2)].stage = "video"
    /\ calls[n][HardCall(n, 2)].resp.net = "reject"

\* ---- C12 ---------------------------------------------------------------
\* a 2xx answer whose body lacks the property its stage is asked for
Malformed(c) ==
  /\ c.resp.net = "ok"
  /\ \/ c.stage = "vibe" /\ c.resp.vibe_extraction = Undef
     \/ c.stage = "image" /\ c.resp.image_prompts = NoLen
     \/ c.stage = "video" /\ c.resp.video_prompt = Undef

MalformedItems(n) ==
  {k \in 1..NumVideos(n) : \E j \in CallsOf(n, k) : Malformed(calls[n][j])}

\* C12: an item with a 2xx answer that lacks vibe_extraction, image_prompts
\* or video_prompt never enters the success accumulators, has no request
\* after that answer, and has a FailureRecord once the loop has left it.
C12_MalformedBody ==
  \A n \in Inst : \A k \in MalformedItems(n) :
    /\ ~InSuccesses(n, k)
    /\ \A j \in CallsOf(n, k) :
         Malformed(calls[n][j]) => \A m \in CallsOf(n, k) : m <= j
    /\ Settled(n, k) => InFailures(n, k)

\* ---- C13 ---------------------------------------------------------------
NoEnrichment(x) ==
  x.vibe_description = Undef /\ x.image_prompts = NoLen /\ x.video_prompt = Undef
FullEnrichment(x) ==
  x.vibe_description # Undef /\ x.image_prompts # NoLen /\ x.video_prompt # Undef
AllOrNothing(xs) ==
  \A j \in 1..Len(xs) : NoEnrichment(xs[j]) \/ FullEnrichment(xs[j])

\* C13: every artifact of the live result set, of the success accumulator
\* and of the history store has its three enrichment fields all unset or
\* all set.
C13_AllOrNothing ==
  /\ AllOrNothing(results)
  /\ AllOrNothing(history)
  /\ \A n \in Inst : AllOrNothing(run[n].analyzedResults)

\* ---- C14 ---------------------------------------------------------------
\* the positions of the result set that lack scenes or media
Excluded ==
  {k \in 1..Len(results) :
     results[k].scenes = NoLen \/ results[k].scenes = 0 \/ results[k].fileSize = 0}

\* C14: an artifact without scenes or with an empty file is left out of the
\* batch: no request carries its id, it has no FailureRecord and no entry
\* in the success accumulators, and the total N of the run, of the progress
\* text and of the percentage counts the other artifacts only.
C14_Excluded ==
  \A n \in Inst :
    /\ \A k \in Excluded :
         /\ \A j \in 1..Len(calls[n]) : calls[n][j].id # results[k].id
         /\ \A j \in 1..Len(run[n].vws) : run[n].vws[j].id # results[k].id
         /\ \A j \in 1..Len(run[n].failures) :
              run[n].failures[j].videoName # results[k].videoName
         /\ \A j \in 1..Len(st[n].failedVideos) :
              st[n].failedVideos[j].videoName # results[k].videoName
         /\ \A j \in 1..Len(run[n].allAnalyses) :
              run[n].allAnalyses[j].resultId # results[k].id
    /\ InRun(n) =>
         LET N == Len(results) - Cardinality(Excluded)
         IN /\ NumVideos(n) = N
            /\ run[n].pc \in Stages =>
                 st[n].currentStep = <<run[n].pc, run[n].i + 1, N>>
            /\ run[n].pc \in Stages =>
                 st[n].progress = (st[n].processedCount * 100) \div N

C14_Witness ==
  \E n \in Inst :
    /\ Ended(n) /\ Len(results) = 2 /\ Excluded = {1}
    /\ results[1].scenes > 0 /\ results[1].fileSize = 0
    /\ NumVideos(n) = 1 /\ Len(calls[n]) = 3 /\ st[n].processedCount = 1

\* ---- C15 ---------------------------------------------------------------
\* the (artifactId, Enrichment) pair of an enriched artifact
AnalysisOf(x) ==
  [resultId |-> x.id, vibe |-> x.vibe_description,
   imagePrompts |-> x.image_prompts, videoPrompt |-> x.video_prompt]

\* C15: a run that ended without a top-level error has progress 100, the
\* summary text with the number of failure records and of analyses (or the
\* all-successful text when there is no failure record), exactly one call
\* of onAnalysisComplete, made with the enrichments of the items that went
\* through all three stages in batch order, isComplete set and isAnalyzing
\* cleared; and a run that has left the loop can only end.
C15_NormalEnd ==
  /\ [](\A n \in Inst :
          EndedNormally(n) =>
            LET done == CompletedUpTo(n, NumVideos(n))
            IN /\ st[n].progress = 100
               /\ st[n].currentStep =
                    IF Len(run[n].failures) > 0
                    THEN <<"warnings", Len(run[n].failures), Len(done)>>
                    ELSE <<"success">>
               /\ handed[n] = <<[m \in 1..Len(done) |-> AnalysisOf(done[m])]>>
               /\ st[n].isComplete /\ ~st[n].isAnalyzing)
  /\ [][\A n \in Inst :
          run[n].pc = "finish" /\ SameRun(n) => run'[n].pc \in {"finish", "done"}]_vars

C15_Witness ==
  \E n \in Inst :
    /\ EndedNormally(n) /\ NumVideos(n) = 2
    /\ st[n].currentStep = <<"warnings", 1, 1>>
    /\ InFailures(n, 1) /\ InSuccesses(n, 2) /\ Len(handed[n][1]) = 1

\* ---- C16 ---------------------------------------------------------------
\* the run ended in the top-level catch block
EndedInError(n) == Ended(n) /\ st[n].error # Undef

EmergencyExports(n) ==
  {j \in 1..Len(exports[n]) : exports[n][j].label = "-partial-error-recovery"}

\* what the top-level catch block leaves whether or not it exports:
\* the message of the exception as the error, isComplete unset, isAnalyzing
\* cleared, the run over although the emergency export may have thrown
ReportedFailed(n) ==
  /\ st[n].error = "merge failed"
  /\ ~st[n].isComplete /\ ~st[n].isAnalyzing
  /\ Len(handed[n]) = 1
  /\ \A j \in EmergencyExports(n) :
       /\ j = Len(exports[n])
       /\ exports[n][j].items = run[n].analyzedResults
       /\ exports[n][j].items = CompletedUpTo(n, NumVideos(n))

\* C16 as stated: a run that ended in the top-level catch block has called
\* the emergency export exactly once.
C16_TopLevelFailure ==
  \A n \in Inst :
    EndedInError(n) => ReportedFailed(n) /\ Cardinality(EmergencyExports(n)) = 1

\* C16 amended: a run that ended in the top-level catch block has called
\* the emergency export exactly once, with every accumulated enriched
\* artifact, when the success accumulator is non-empty, and not at all when
\* it is empty; the error is set, isComplete is not, isAnalyzing is cleared
\* also when the emergency export threw.
C16_TopLevelFailureAmended ==
  \A n \in Inst :
    EndedInError(n) =>
      /\ ReportedFailed(n)
      /\ Cardinality(EmergencyExports(n)) =
           IF Len(run[n].analyzedResults) > 0 THEN 1 ELSE 0

C16_Witness ==
  \E n \in Inst :
    /\ EndedInError(n) /\ NumVideos(n) = 2 /\ InSuccesses(n, 1) /\ InFailures(n, 2)
    /\ \E j \in EmergencyExports(n) : exports[n][j].threw /\ Len(exports[n][j].items) = 1

\* ---- C17 ---------------------------------------------------------------
\* the artifacts of the live result set that have scenes and media
EligibleNow ==
  SelectSeq(results, LAMBDA x : x.scenes # NoLen /\ x.scenes > 0 /\ x.fileSize > 0)

\* a step is the start of a run of instance n
Starts(n) == run'[n].started = run[n].started + 1

\* C17: the start of a run, by the auto-start effect or by Retry, takes
\* every eligible artifact into the batch, also the ones an earlier run
\* enriched, clears the processed count, the progress, the failure list and
\* the accumulators and issues the vibe-extraction request of the first
\* artifact; and a run that has left its loop has issued a vibe-extraction
\* request for every eligible artifact.
C17_Reprocess ==
  /\ [][\A n \in Inst :
          Starts(n) =>
            /\ run'[n].vws = EligibleNow
            /\ st'[n].processedCount = 0 /\ st'[n].progress = 0
            /\ st'[n].failedVideos = <<>> /\ run'[n].failures = <<>>
            /\ run'[n].allAnalyses = <<>> /\ run'[n].analyzedResults = <<>>
            /\ Len(EligibleNow) > 0 =>
                 /\ run'[n].i = 0
                 /\ Len(calls'[n]) = 1
                 /\ calls'[n][1].stage = "vibe" /\ calls'[n][1].id = EligibleNow[1].id]_vars
  /\ [](\A n \in Inst :
          run[n].pc \in {"finish", "done"} =>
            \A k \in 1..Len(EligibleNow) :
              \E j \in 1..Len(calls[n]) :
                calls[n][j].stage = "vibe" /\ calls[n][j].id = EligibleNow[k].id)

C17_Witness ==
  \E n \in Inst :
    /\ run[n].started = 2 /\ run[n].enrichedBefore
    /\ Ended(n) /\ NumVideos(n) = 2
    /\ InSuccesses(n, 1) /\ Issued(n, 2, "vibe") /\ InFailures(n, 2)

\* ---- C18 ---------------------------------------------------------------
\* a step in which instance n called onAnalysisComplete and the call returned
Called(n) == Len(handed'[n]) = Len(handed[n]) + 1 /\ st'[n].error = Undef
\* the analyses that call was made with
Given(n) == handed'[n][Len(handed'[n])]

Overwritten(x, a) ==
  [x EXCEPT !.vibe_description = a.vibe, !.image_prompts = a.imagePrompts,
            !.video_prompt = a.videoPrompt]

\* C18: after handleBatchAnalysisComplete(analyses) every live result whose
\* id is the resultId of an analysis carries the three fields of that
\* analysis and is otherwise unchanged, and every other live result is
\* unchanged.
C18_MergeById ==
  [][\A n \in Inst :
       Called(n) =>
         /\ Len(results') = Len(results)
         /\ \A k \in 1..Len(results) :
              LET hits == {j \in 1..Len(Given(n)) : Given(n)[j].resultId = results[k].id}
              IN IF hits = {} THEN results'[k] = results[k]
                 ELSE \A j \in hits : results'[k] = Overwritten(results[k], Given(n)[j])]_vars

C18_Witness ==
  \E n \in Inst :
    /\ EndedNormally(n) /\ Len(results) = 2 /\ NumVideos(n) = 2
    /\ results[1].videoName = results[2].videoName
    /\ NoEnrichment(results[1]) /\ FullEnrichment(results[2])
    /\ Len(handed[n][1]) = 1

\* ---- C19 ---------------------------------------------------------------
Ids(xs) == [k \in 1..Len(xs) |-> xs[k].id]

\* C19: a merge leaves the length, the ids and the order of the live result
\* set and of the history store as they were, and a merge none of whose
\* analyses has the id of a live result changes neither of them.
C19_NoCreateNoOp ==
  [][\A n \in Inst :
       Called(n) =>
         /\ Ids(results') = Ids(results)
         /\ Ids(history') = Ids(history)
         /\ (\A j \in 1..Len(Given(n)) : \A k \in 1..Len(results) :
               Given(n)[j].resultId # results[k].id)
              => results' = results /\ history' = history]_vars

\* ---- C20 ---------------------------------------------------------------
\* the analyses of the merged batch whose artifact has the display name
NamedAnalyses(n, name) ==
  {j \in 1..Len(Given(n)) :
     \E k \in 1..Len(results) :
       results[k].id = Given(n)[j].resultId /\ results[k].videoName = name}

\* C20: after a merge every history entry whose videoName is the display
\* name of an enriched artifact of the merged batch carries the three
\* fields of that artifact's analysis (where one artifact of that name was
\* enriched), whatever other results or history entries have the same name.
C20_HistoryByName ==
  [][\A n \in Inst :
       Called(n) =>
         \A h \in 1..Len(history) :
           \A j \in NamedAnalyses(n, history[h].videoName) :
             NamedAnalyses(n, history[h].videoName) = {j}
               => history'[h] = Overwritten(history[h], Given(n)[j])]_vars

\* ---- C21 ---------------------------------------------------------------
\* the completion view is rendered: lines 377-437
CompletionShown(n) == Ended(n) /\ st[n].isComplete /\ st[n].error = Undef

\* C21: when the completion view is shown the displayed failure list is the
\* failure accumulator, it has one entry for every item that failed at a
\* stage and no other, and the displayed success count, the number of
\* eligible results minus the length of the failure list, is the number of
\* analyses handed to onAnalysisComplete.
C21_Report ==
  \A n \in Inst :
    CompletionShown(n) =>
      /\ st[n].failedVideos = run[n].failures
      /\ \A k \in 1..NumVideos(n) :
           Cardinality(RecordsOf(n, k)) = IF FailedAtStage(n, k) THEN 1 ELSE 0
      /\ Len(EligibleNow) - Len(st[n].failedVideos) = Len(handed[n][Len(handed[n])])


\* ------------------------------------------------ the export of one record
\* Text is a sequence of one-character strings.  A JSON value is a record
\* tagged by its type; a number is its sign, its integer part and the digits
\* of its fraction without trailing zeros (magnitudes from 10^-6 up to 10^21,
\* which JavaScript writes without an exponent; -0 is left out).
MaxNum == 2

Digits == <<"0", "1", "2", "3", "4", "5", "6", "7", "8", "9">>
IsDigit(c) == \E d \in 1..10 : Digits[d] = c
DigitValue(c) == (CHOOSE d \in 1..10 : Digits[d] = c) - 1

Num(neg, int, frac) == [t |-> "number", neg |-> neg, int |-> int, frac |-> frac]
Str(s) == [t |-> "string", s |-> s]
Bool(b) == [t |-> "boolean", b |-> b]
Arr(items) == [t |-> "array", items |-> items]
Obj(keys, vals) == [t |-> "object", keys |-> keys, vals |-> vals]

RECURSIVE Flatten(_)
Flatten(ss) == IF ss = <<>> THEN <<>> ELSE Head(ss) \o Flatten(Tail(ss))

RECURSIVE DigitsOf(_)
DigitsOf(n) ==
  IF n < 10 THEN <<Digits[n + 1]>> ELSE Append(DigitsOf(n \div 10), Digits[(n % 10) + 1])

Sign(x) == IF x.neg THEN <<"-">> ELSE <<>>

\* Number.isInteger(value)
IsInteger(x) == x.frac = <<>>

\* value.toFixed(1) of an integer
toFixed1(x) == Sign(x) \o DigitsOf(x.int) \o <<".", "0">>

\* the text JSON.stringify writes for a number
NumberToString(x) ==
  Sign(x) \o DigitsOf(x.int) \o
  (IF x.frac = <<>> THEN <<>> ELSE <<".">> \o [i \in 1..Len(x.frac) |-> Digits[x.frac[i] + 1]])

\* the replacer handed to JSON.stringify: lines 128-133
replacer(value) ==
  IF value.t = "number"
  THEN (IF IsInteger(value) THEN Str(toFixed1(value)) ELSE value)
  ELSE value

\* JSON.stringify's quoting of a string
Quote(s) ==
  <<"\"">> \o
  Flatten([i \in 1..Len(s) |-> IF s[i] \in {"\"", "\\"} THEN <<"\\", s[i]>> ELSE <<s[i]>>]) \o
  <<"\"">>

\* JSON.stringify(value, replacer, gap) at nesting depth level
RECURSIVE stringify(_, _, _)
stringify(value, gap, level) ==
  LET w == replacer(value)
      nl(l) == IF gap = 0 THEN <<>> ELSE <<"\n">> \o [i \in 1..(gap * l) |-> " "]
      colon == IF gap = 0 THEN <<":">> ELSE <<":", " ">>
      comma(i) == IF i > 1 THEN <<",">> ELSE <<>>
  IN CASE w.t = "number" -> NumberToString(w)
       [] w.t = "string" -> Quote(w.s)
       [] w.t = "boolean" -> (IF w.b THEN <<"t", "r", "u", "e">> ELSE <<"f", "a", "l", "s", "e">>)
       [] w.t = "array" ->
            IF w.items = <<>> THEN <<"[", "]">>
            ELSE <<"[">> \o
                 Flatten([i \in 1..Len(w.items) |->
                            comma(i) \o nl(level + 1) \o stringify(w.items[i], gap, level + 1)]) \o
                 nl(level) \o <<"]">>
       [] w.t = "object" ->
            IF w.keys = <<>> THEN <<"{", "}">>
            ELSE <<"{">> \o
                 Flatten([i \in 1..Len(w.keys) |->
                            comma(i) \o nl(level + 1) \o Quote(w.keys[i]) \o colon \o
                            stringify(w.vals[i], gap, level + 1)]) \o
                 nl(level) \o <<"}">>

\* the number of digits of s from position i on
RECURSIVE DigitRun(_, _)
DigitRun(s, i) == IF i <= Len(s) /\ IsDigit(s[i]) THEN 1 + DigitRun(s, i + 1) ELSE 0

\* /"(-?\d+\.\d+)"/ matched at position i: the position of the closing
\* quote, 0 when it does not match there
MatchAt(s, i) ==
  LET a == IF i + 1 <= Len(s) /\ s[i + 1] = "-" THEN i + 2 ELSE i + 1
      d1 == DigitRun(s, a)
      dot == a + d1
      d2 == IF dot <= Len(s) /\ s[dot] = "." THEN DigitRun(s, dot + 1) ELSE 0
      close == dot + 1 + d2
  IN IF s[i] = "\"" /\ d1 > 0 /\ d2 > 0 /\ close <= Len(s) /\ s[close] = "\"" THEN close ELSE 0

\* the first quote of s from position i on, Len(s) + 1 when there is none
NextQuote(s, i) ==
  IF \E j \in i..Len(s) : s[j] = "\""
  THEN CHOOSE j \in i..Len(s) : s[j] = "\"" /\ \A k \in i..(j - 1) : s[k] # "\""
  ELSE Len(s) + 1

\* .replace(/"(-?\d+\.\d+)"/g, '$1') from position i on: the matches are
\* taken from left to right and do not overlap
RECURSIVE replace(_, _)
replace(s, i) ==
  LET q == NextQuote(s, i)
      close == MatchAt(s, q)
  IN IF q > Len(s) THEN SubSeq(s, i, Len(s))
     ELSE IF close > 0
          THEN SubSeq(s, i, q - 1) \o SubSeq(s, q + 1, close - 1) \o replace(s, close + 1)
          ELSE SubSeq(s, i, q) \o replace(s, q + 1)

\* ---- JSON.parse
SyntaxError == [t |-> "SyntaxError"]
Failed == [ok |-> FALSE, val |-> SyntaxError, next |-> 0]
Parsed(v, n) == [ok |-> TRUE, val |-> v, next |-> n]

RECURSIVE SkipWs(_, _)
SkipWs(s, i) == IF i <= Len(s) /\ s[i] \in {" ", "\n"} THEN SkipWs(s, i + 1) ELSE i

RECURSIVE ValueOf(_)
ValueOf(ds) ==
  IF ds = <<>> THEN 0
  ELSE 10 * ValueOf(SubSeq(ds, 1, Len(ds) - 1)) + DigitValue(ds[Len(ds)])

RECURSIVE StripZeros(_)
StripZeros(ds) ==
  IF ds # <<>> /\ ds[Len(ds)] = 0 THEN StripZeros(SubSeq(ds, 1, Len(ds) - 1)) ELSE ds

\* a number: -? (0 | [1-9][0-9]*) (. [0-9]+)? ; the value keeps the
\* characters it was read from in text, for the properties to look at
ParseNumber(s, i) ==
  LET neg == s[i] = "-"
      a == IF neg THEN i + 1 ELSE i
      d1 == IF a <= Len(s) /\ s[a] = "0" THEN 1 ELSE DigitRun(s, a)
      dot == a + d1
      hasFrac == dot <= Len(s) /\ s[dot] = "."
      d2 == IF hasFrac THEN DigitRun(s, dot + 1) ELSE 0
      end == IF hasFrac THEN dot + 1 + d2 ELSE dot
  IN IF d1 = 0 \/ (hasFrac /\ d2 = 0) THEN Failed
     ELSE Parsed([t |-> "number", neg |-> neg,
                  int |-> ValueOf(SubSeq(s, a, dot - 1)),
                  frac |-> StripZeros([k \in 1..d2 |-> DigitValue(s[dot + k])]),
                  text |-> SubSeq(s, i, end - 1)], end)

\* the position of the closing quote of the string whose characters start at i
RECURSIVE StringEnd(_, _)
StringEnd(s, i) ==
  IF i > Len(s) THEN 0
  ELSE IF s[i] = "\"" THEN i
  ELSE IF s[i] = "\\" THEN StringEnd(s, i + 2)
  ELSE StringEnd(s, i + 1)

RECURSIVE Unescape(_)
Unescape(cs) ==
  IF cs = <<>> THEN <<>>
  ELSE IF Head(cs) = "\\" THEN <<cs[2]>> \o Unescape(SubSeq(cs, 3, Len(cs)))
  ELSE <<Head(cs)>> \o Unescape(Tail(cs))

ParseString(s, i) ==
  LET e == StringEnd(s, i + 1)
  IN IF e = 0 THEN Failed ELSE Parsed(Str(Unescape(SubSeq(s, i + 1, e - 1))), e + 1)

Literal(s, i, word, v) ==
  IF i + Len(word) - 1 <= Len(s) /\ SubSeq(s, i, i + Len(word) - 1) = word
  THEN Parsed(v, i + Len(word))
  ELSE Failed

RECURSIVE ParseValue(_, _)
RECURSIVE ParseItems(_, _, _)
RECURSIVE ParseMembers(_, _, _, _)

ParseValue(s, i) ==
  IF i > Len(s) THEN Failed
  ELSE CASE s[i] = "{" -> ParseMembers(s, SkipWs(s, i + 1), <<>>, <<>>)
         [] s[i] = "[" -> ParseItems(s, SkipWs(s, i + 1), <<>>)
         [] s[i] = "\"" -> ParseString(s, i)
         [] s[i] = "-" \/ IsDigit(s[i]) -> ParseNumber(s, i)
         [] s[i] = "t" -> Literal(s, i, <<"t", "r", "u", "e">>, Bool(TRUE))
         [] s[i] = "f" -> Literal(s, i, <<"f", "a", "l", "s", "e">>, Bool(FALSE))
         [] OTHER -> Failed

ParseItems(s, i, acc) ==
  IF i > Len(s) THEN Failed
  ELSE IF s[i] = "]" /\ acc = <<>> THEN Parsed(Arr(<<>>), i + 1)
  ELSE LET r == ParseValue(s, i)
           j == SkipWs(s, r.next)
       IN IF ~r.ok \/ j > Len(s) THEN Failed
          ELSE IF s[j] = "," THEN ParseItems(s, SkipWs(s, j + 1), Append(acc, r.val))
          ELSE IF s[j] = "]" THEN Parsed(Arr(Append(acc, r.val)), j + 1)
          ELSE Failed

ParseMembers(s, i, keys, vals) ==
  IF i > Len(s) THEN Failed
  ELSE IF s[i] = "}" /\ keys = <<>> THEN Parsed(Obj(<<>>, <<>>), i + 1)
  ELSE IF s[i] # "\"" THEN Failed
  ELSE LET k == ParseString(s, i)
           c == SkipWs(s, k.next)
           r == ParseValue(s, SkipWs(s, c + 1))
           j == SkipWs(s, r.next)
       IN IF ~k.ok \/ c > Len(s) THEN Failed
          ELSE IF s[c] # ":" \/ ~r.ok \/ j > Len(s) THEN Failed
          ELSE IF s[j] = ","
               THEN ParseMembers(s, SkipWs(s, j + 1), Append(keys, k.val.s), Append(vals, r.val))
          ELSE IF s[j] = "}"
               THEN Parsed(Obj(Append(keys, k.val.s), Append(vals, r.val)), j + 1)
          ELSE Failed

JSONparse(s) ==
  LET r == ParseValue(s, SkipWs(s, 1))
  IN IF r.ok /\ SkipWs(s, r.next) > Len(s) THEN r.val ELSE SyntaxError

\* ---- the exported record
\* the property names, as text
Keys ==
  [ name |-> <<"n", "a", "m", "e">>,
    clips |-> <<"c", "l", "i", "p", "s">>,
    transitions |-> <<"t", "r", "a", "n", "s", "i", "t", "i", "o", "n", "s">>,
    logo_outro |-> <<"l", "o", "g", "o", "_", "o", "u", "t", "r", "o">>,
    music_file |-> <<"m", "u", "s", "i", "c", "_", "f", "i", "l", "e">>,
    fade_in_duration |-> <<"f", "a", "d", "e", "_", "i", "n", "_", "d", "u", "r", "a", "t", "i", "o", "n">>,
    fade_out_duration |-> <<"f", "a", "d", "e", "_", "o", "u", "t", "_", "d", "u", "r", "a", "t", "i", "o", "n">>,
    index |-> <<"i", "n", "d", "e", "x">>,
    duration |-> <<"d", "u", "r", "a", "t", "i", "o", "n">>,
    required |-> <<"r", "e", "q", "u", "i", "r", "e", "d">>,
    type |-> <<"t", "y", "p", "e">>,
    between_clips |-> <<"b", "e", "t", "w", "e", "e", "n", "_", "c", "l", "i", "p", "s">> ]

\* field order of the export: lines 108-125
orderedJson(d) ==
  Obj(<<Keys.name, Keys.clips, Keys.transitions, Keys.logo_outro, Keys.music_file, Keys.fade_in_duration, Keys.fade_out_duration>>,
      <<Str(d.name),
        Arr([i \in 1..Len(d.clips) |->
               Obj(<<Keys.index, Keys.duration, Keys.required>>,
                   <<d.clips[i].index, d.clips[i].duration, Bool(d.clips[i].required)>>)]),
        Arr([i \in 1..Len(d.transitions) |->
               Obj(<<Keys.type, Keys.duration, Keys.between_clips>>,
                   <<Str(d.transitions[i].type), d.transitions[i].duration,
                     Arr(d.transitions[i].between_clips)>>)]),
        Bool(d.logo_outro),
        Str(d.music_file),
        d.fade_in_duration,
        d.fade_out_duration>>)

\* lines 127-133: JSON.stringify with the replacer, then the quotes around
\* decimal strings removed
jsonStringWithDecimals(d, gap) == replace(stringify(orderedJson(d), gap, 0), 1)

\* App.generateAndDownloadCSV and History.exportToCSV write the record on
\* one line
generateAndDownloadCSV ==
  /\ jsonData # undefined
  /\ jsonString = <<>>
  /\ jsonString' = jsonStringWithDecimals(jsonData, 0)
  /\ UNCHANGED <<results, history, mounted, st, run, calls, exports, handed, envKey, upload,
                 nextId, currentIndex, jsonData, parsed>>

\* JsonOutput shows it indented by two spaces
JsonOutput ==
  /\ jsonData # undefined
  /\ jsonString = <<>>
  /\ jsonString' = jsonStringWithDecimals(jsonData, 2)
  /\ UNCHANGED <<results, history, mounted, st, run, calls, exports, handed, envKey, upload,
                 nextId, currentIndex, jsonData, parsed>>

\* a consumer of the export decodes it as JSON
Decode ==
  /\ jsonString # <<>>
  /\ parsed = undefined
  /\ parsed' = JSONparse(jsonString)
  /\ UNCHANGED <<results, history, mounted, st, run, calls, exports, handed, envKey, upload,
                 nextId, currentIndex, jsonData, jsonString>>

Zero == Num(FALSE, 0, <<>>)
IntParts == 0..MaxNum \cup {10 * MaxNum}
Fracs == {<<>>, <<5>>, <<2, 5>>, <<0, 5>>}
Numbers ==
  {Num(neg, int, frac) : neg \in BOOLEAN, int \in IntParts, frac \in Fracs} \
  {Num(TRUE, 0, <<>>)}
Texts == {<<"a">>, <<"1", ".", "5">>, <<"0", "1", ".", "5">>, <<"\"", "2", ".", "0", "\"">>}
ClipLists ==
  {<<>>} \cup
  {<<[index |-> Zero, duration |-> x, required |-> TRUE],
     [index |-> Num(FALSE, 1, <<>>), duration |-> x, required |-> FALSE]>> : x \in Numbers}
OutputJsons ==
  {[name |-> nm,
    clips |-> cl,
    transitions |-> IF cl = <<>> THEN <<>>
                    ELSE <<[type |-> <<"c", "u", "t">>, duration |-> fo,
                            between_clips |-> <<Zero, Num(FALSE, 1, <<>>)>>]>>,
    logo_outro |-> FALSE,
    music_file |-> <<>>,
    fade_in_duration |-> fi,
    fade_out_duration |-> fo] :
     nm \in Texts, cl \in ClipLists, fi \in Numbers, fo \in {Zero, Num(FALSE, 1, <<5>>)}}

InitExport ==
  /\ results = <<>>
  /\ history = <<>>
  /\ mounted = 0
  /\ st = [n \in Inst |-> InitialCells]
  /\ run = [n \in Inst |-> IdleRun]
  /\ calls = [n \in Inst |-> <<>>]
  /\ exports = [n \in Inst |-> <<>>]
  /\ handed = [n \in Inst |-> <<>>]
  /\ envKey = "key"
  /\ upload = "idle"
  /\ nextId = 1
  /\ currentIndex = 0
  /\ jsonData \in OutputJsons
  /\ jsonString = <<>>
  /\ parsed = undefined

NextExport == generateAndDownloadCSV \/ JsonOutput \/ Decode

SpecExport == InitExport /\ [][NextExport]_vars

\* ---- C22 ---------------------------------------------------------------
\* the numeric fields of a record, in the order of the export
NumericFields(d) ==
  Flatten([i \in 1..Len(d.clips) |-> <<d.clips[i].index, d.clips[i].duration>>]) \o
  Flatten([i \in 1..Len(d.transitions) |->
             <<d.transitions[i].duration>> \o d.transitions[i].between_clips]) \o
  <<d.fade_in_duration, d.fade_out_duration>>

\* the values a decoded record has in the places of the numeric fields
DecodedFields(p) ==
  Flatten([i \in 1..Len(p.vals[2].items) |->
             <<p.vals[2].items[i].vals[1], p.vals[2].items[i].vals[2]>>]) \o
  Flatten([i \in 1..Len(p.vals[3].items) |->
             <<p.vals[3].items[i].vals[2]>> \o p.vals[3].items[i].vals[3].items]) \o
  <<p.vals[6], p.vals[7]>>

Decoded == parsed # undefined

\* C22: once the exported text has been decoded as JSON, the decoding has
\* succeeded, and in the place of every numeric field of the record stands a
\* number of the same value that was written with one decimal place, ".0",
\* when the value is integral and as the value itself when it is not.
C22_RoundTrip ==
  Decoded =>
    /\ parsed.t = "object"
    /\ LET xs == NumericFields(jsonData)
           ys == DecodedFields(parsed)
       IN /\ Len(ys) = Len(xs)
          /\ \A i \in 1..Len(xs) :
               /\ ys[i].t = "number"
               /\ ys[i].neg = xs[i].neg /\ ys[i].int = xs[i].int /\ ys[i].frac = xs[i].frac
               /\ ys[i].text = IF IsInteger(xs[i])
                               THEN Sign(xs[i]) \o DigitsOf(xs[i].int) \o <<".", "0">>
                               ELSE NumberToString(xs[i])

\* ---- C23 ---------------------------------------------------------------
\* C23: when the vibe-extraction call of the item at position k is issued the
\* step shown names position k of N, and from the moment the item at position
\* k has ended, whether in the success or in the failure accumulator, until
\* the next item ends, the processed count is k and the progress is
\* floor(100 * k / N).
C23_Events ==
  \A n \in Inst :
    /\ run[n].pc = "vibe" =>
         st[n].currentStep = <<"vibe", run[n].i + 1, NumVideos(n)>>
    /\ (run[n].pc \in Stages \cup {"finish"} /\ run[n].i > 0) =>
         /\ st[n].processedCount = run[n].i
         /\ st[n].progress = (100 * run[n].i) \div NumVideos(n)

\* ---- C24 ---------------------------------------------------------------
\* C24: no request is sent twice: the requests of a run differ in artifact or
\* in stage, there are at most three of them for each artifact of the batch,
\* and a run that has left its loop has sent at least one request for each.
C24_NoRetry ==
  \A n \in Inst :
    /\ \A j, m \in 1..Len(calls[n]) :
         (calls[n][j].id = calls[n][m].id /\ calls[n][j].stage = calls[n][m].stage) => j = m
    /\ \A j \in 1..Len(calls[n]) :
         /\ calls[n][j].videoNumber \in 1..NumVideos(n)
         /\ calls[n][j].id = run[n].vws[calls[n][j].videoNumber].id
    /\ Len(calls[n]) <= 3 * NumVideos(n)
    /\ run[n].pc \in {"finish", "done"} =>
         /\ Len(calls[n]) >= NumVideos(n)
         /\ \A k \in 1..NumVideos(n) : CallsOf(n, k) # {}

C24_Witness ==
  \E n \in Inst :
    /\ Ended(n) /\ NumVideos(n) = 2
    /\ Cardinality(CallsOf(n, 1)) = 2 /\ Cardinality(CallsOf(n, 2)) = 3

\* ---- C25 ---------------------------------------------------------------
Awaiting(n) == run[n].pc \in Stages
AllSettled(n) ==
  /\ Ended(n) /\ ~st[n].isAnalyzing
  /\ \A k \in 1..NumVideos(n) : HasOutcome(n, k)

\* the request that has not resolved is the last one sent, it is for the item
\* the loop is at, and the run is still analyzing
HeldBy(n, j) ==
  /\ j = Len(calls[n])
  /\ calls[n][j].videoNumber = run[n].i + 1
  /\ \A m \in 1..Len(calls[n]) : calls[n][m].videoNumber <= calls[n][j].videoNumber
  /\ run[n].pc = calls[n][j].stage
  /\ st[n].isAnalyzing /\ ~st[n].isComplete

\* C25: when every request that is sent resolves and the continuation then
\* runs, a run that awaits a request ends, with isAnalyzing cleared and every
\* eligible artifact in the success or in the failure accumulator; and as long
\* as a request for the item at position k has not resolved, no request for a
\* later item has been sent and the run has not ended.
C25_Completes ==
  /\ \A n \in Inst : Awaiting(n) ~> AllSettled(n)
  /\ [](\A n \in Inst : \A j \in 1..Len(calls[n]) :
          calls[n][j].resp = Pending => HeldBy(n, j))

C25_Witness ==
  \E n \in Inst :
    /\ AllSettled(n) /\ NumVideos(n) = 2 /\ Len(calls[n]) = 5
    /\ run[n].started = 1

\* ---- C26 ---------------------------------------------------------------
\* C26: the outcome of an item does not depend on the checkpoint export: an
\* item whose three requests succeeded is in the success accumulator and has
\* no failure record, also when onAutoSaveCSV threw after it, and no item is
\* in both accumulators.
C26_ExportNeutral ==
  \A n \in Inst :
    InRun(n) =>
      \A k \in 1..NumVideos(n) :
        /\ (Settled(n, k) /\ PassedAllStages(n, k)) =>
             InSuccesses(n, k) /\ ~InFailures(n, k)
        /\ ~(InSuccesses(n, k) /\ InFailures(n, k))

\* ---- C27 ---------------------------------------------------------------
\* the export a step of instance n adds
Exported(n) == exports'[n][Len(exports'[n])]

\* C27: every checkpoint export of a run carries a position k of the batch
\* with k mod 5 = 0 or k = N, no two carry the same position, so there are at
\* most ceil(N / 5) of them, and each is made by the step that ends the item
\* at position k; there is at most one emergency export, it is made by the
\* step that ends the run with an error, and it carries the success
\* accumulator, which is not empty.
C27_ExportTimes ==
  /\ [](\A n \in Inst :
          /\ \A j \in ProgressExports(n) :
               /\ exports[n][j].count \in 1..NumVideos(n)
               /\ exports[n][j].count % 5 = 0 \/ exports[n][j].count = NumVideos(n)
               /\ \A m \in ProgressExports(n) :
                    exports[n][m].count = exports[n][j].count => m = j
          /\ Cardinality(ProgressExports(n)) <= (NumVideos(n) + 4) \div 5
          /\ Cardinality(EmergencyExports(n)) <= 1
          /\ \A j \in EmergencyExports(n) :
               /\ EndedInError(n)
               /\ exports[n][j].items = run[n].analyzedResults
               /\ exports[n][j].items # <<>>)
  /\ [][\A n \in Inst :
          (SameRun(n) /\ exports'[n] # exports[n]) =>
            /\ exports'[n] = Append(exports[n], Exported(n))
            /\ Exported(n).label = "-progress-" =>
                 /\ run[n].pc = "video"
                 /\ Exported(n).count = run[n].i + 1
                 /\ run'[n].i = run[n].i + 1
            /\ Exported(n).label = "-partial-error-recovery" =>
                 /\ run[n].pc = "finish" /\ run'[n].pc = "done"
                 /\ st'[n].error # Undef]_vars

C27_Witness ==
  \E n \in Inst :
    /\ EndedInError(n) /\ NumVideos(n) = 6
    /\ Cardinality(ProgressExports(n)) = 2 /\ Cardinality(EmergencyExports(n)) = 1

\* ---- C30 ---------------------------------------------------------------
\* C30: whenever there are results, currentIndex is the index of one of them.
C30_IndexInRange ==
  Len(results) > 0 => currentIndex \in 0..(Len(results) - 1)

\* ---- C28 ---------------------------------------------------------------
Active(n) == run[n].pc \in Stages \cup {"finish"}

\* C28: an instance has at most one run under way: isAnalyzing is set exactly
\* while a call of handleBatchAnalyze is under way, the error that renders the
\* Retry button is not set then, and no step, of the auto-start effect or of
\* Retry, starts a run of an instance that is analyzing.
C28_OneRun ==
  /\ [](\A n \in Inst :
          /\ st[n].isAnalyzing <=> Active(n)
          /\ st[n].isAnalyzing => st[n].error = Undef)
  /\ [][\A n \in Inst : Starts(n) => ~st[n].isAnalyzing /\ ~Active(n)]_vars

\* the effect is due again while the mounted instance is analyzing
C28_Witness ==
  \E n \in Inst :
    /\ mounted = n /\ st[n].isAnalyzing /\ st[n].effectDue
    /\ run[n].pc \in Stages /\ run[n].started = 1

\* ---- C29 ---------------------------------------------------------------
\* C29: a run that has ended has left isComplete or the error set, and the
\* auto-start effect (a start with no error set; Retry needs one) starts a
\* run only in an instance that has started none and is not complete: a
\* replacement of the results array after the end of a run starts no other.
C29_NoRestart ==
  /\ [](\A n \in Inst : Ended(n) => st[n].isComplete \/ st[n].error # Undef)
  /\ [][\A n \in Inst :
          (Starts(n) /\ st[n].error = Undef) =>
            run[n].started = 0 /\ ~st[n].isComplete]_vars

\* the merge of a completed run has replaced the results, the effect of the
\* mounted instance has run again, and the instance still has its one run
C29_Witness ==
  \E n \in Inst :
    /\ mounted = n /\ EndedNormally(n) /\ st[n].isComplete /\ ~st[n].effectDue
    /\ Len(handed[n]) = 1 /\ handed[n][1] # <<>>
    /\ results # run[n].results
    /\ run[n].started = 1 /\ calls[n] # <<>>

====
